---- MODULE Spec2Model ----
(***************************************************************************)
(* getter: a web service that stores uploaded JPEG images (POST /save) and *)
(* serves cropped, scaled and labelled derivatives of them (GET /scaled).  *)
(* The model follows src/getter.go.  Strings are sequences of one-letter   *)
(* strings, so that the regular expression, strconv.Atoi and               *)
(* strconv.ParseUint are computed letter by letter.  A stored file is a    *)
(* sequence of bytes; the store is the directory given by -dir.            *)
(***************************************************************************)
EXTENDS Integers, Sequences, FiniteSets, TLC

(* ------------------------------ bounds -------------------------------- *)

\* Largest width and height of an uploaded image, in pixels.
MaxDim == 2

\* The -maxSize flag: the byte count io.LimitReader lets through.
MaxSize == 4

\* image/jpeg refuses to encode an image with a side of 1<<16 or more.
JpegMaxSide == 65536

(* ------------------------------ strings ------------------------------- *)

Lower == {"a","b","c","d","e","f","g","h","i","j","k","l","m",
          "n","o","p","q","r","s","t","u","v","w","x","y","z"}

Upper == {"A","B","C","D","E","F","G","H","I","J","K","L","M",
          "N","O","P","Q","R","S","T","U","V","W","X","Y","Z"}

DecDigits == <<"0","1","2","3","4","5","6","7","8","9">>

HexDigitsLower == <<"0","1","2","3","4","5","6","7","8","9","a","b","c","d","e","f">>

HexDigitsUpper == <<"0","1","2","3","4","5","6","7","8","9","A","B","C","D","E","F">>

Range(s) == {s[i] : i \in 1..Len(s)}

IsDecDigit(c) == c \in Range(DecDigits)

DecValue(c) == (CHOOSE i \in 1..Len(DecDigits) : DecDigits[i] = c) - 1

IsHexDigit(c) == c \in Range(HexDigitsLower) \cup Range(HexDigitsUpper)

HexValue(c) ==
    IF c \in Range(HexDigitsLower)
    THEN (CHOOSE i \in 1..Len(HexDigitsLower) : HexDigitsLower[i] = c) - 1
    ELSE (CHOOSE i \in 1..Len(HexDigitsUpper) : HexDigitsUpper[i] = c) - 1

RECURSIVE DigitsValue(_, _)
\* The value of a run of digits in the given base, most significant first.
DigitsValue(s, base) ==
    IF s = <<>> THEN 0
    ELSE LET last == s[Len(s)]
             rest == SubSeq(s, 1, Len(s) - 1)
         IN  DigitsValue(rest, base) * base
               + (IF base = 16 THEN HexValue(last) ELSE DecValue(last))

\* validFilename = regexp.MustCompile(`^[a-zA-Z0-9-]+$`), and the test
\* `filename == "" || !validFilename.MatchString(filename)` negated.
ValidChar(c) == c \in Lower \cup Upper \cup Range(DecDigits) \cup {"-"}

\* A faulty check: dots and slashes pass as well.
validFilenameLax(filename) ==
    /\ filename /= <<>>
    /\ \A i \in 1..Len(filename) : ValidChar(filename[i]) \/ filename[i] \in {".", "/"}

validFilename(filename) ==
    /\ filename /= <<>>
    /\ \A i \in 1..Len(filename) : ValidChar(filename[i])

\* A faulty parse: text that is no number gives 0 and no error.
AtoiLax(s) ==
    IF s /= <<>> /\ \A i \in 1..Len(s) : IsDecDigit(s[i])
    THEN [ok |-> TRUE, val |-> DigitsValue(s, 10)]
    ELSE [ok |-> TRUE, val |-> 0]

\* strconv.Atoi: an optional sign, then at least one decimal digit.  (A
\* number too large for an int is an error as well; the queries have none.)
Atoi(s) ==
    LET signed == s /= <<>> /\ s[1] \in {"+", "-"}
        digits == IF signed THEN Tail(s) ELSE s
    IN  IF digits /= <<>> /\ \A i \in 1..Len(digits) : IsDecDigit(digits[i])
        THEN [ok |-> TRUE,
              val |-> IF signed /\ s[1] = "-"
                      THEN 0 - DigitsValue(digits, 10)
                      ELSE DigitsValue(digits, 10)]
        ELSE [ok |-> FALSE, val |-> 0]

\* strconv.ParseUint(s, base, 32): digits of the base only, no sign.
ParseUint(s, base) ==
    IF /\ s /= <<>>
       /\ \A i \in 1..Len(s) : IF base = 16 THEN IsHexDigit(s[i]) ELSE IsDecDigit(s[i])
    THEN [ok |-> TRUE, val |-> DigitsValue(s, base)]
    ELSE [ok |-> FALSE, val |-> 0]

(* ------------------------------- JPEG --------------------------------- *)

\* A byte is a number; Marker stands for the start-of-image marker, the
\* two bytes after it for the frame's width and height.
Marker == MaxDim + 1

Jpeg(w, h) == <<Marker, w, h>>

\* jpeg.Decode / image.Decode: the image's size, or an error.  Bytes after
\* the frame are not looked at.
Decode(data) ==
    IF /\ Len(data) >= 3
       /\ data[1] = Marker
       /\ data[2] \in 1..MaxDim
       /\ data[3] \in 1..MaxDim
    THEN [ok |-> TRUE, w |-> data[2], h |-> data[3]]
    ELSE [ok |-> FALSE, w |-> 0, h |-> 0]

isValidJPEG(data) == Decode(data).ok

(* ------------------------------ the store ----------------------------- *)

NoFile == [exists |-> FALSE, bytes |-> <<>>]

File(b) == [exists |-> TRUE, bytes |-> b]

\* io.LimitReader(uploadedFile, maxSize) read to its end.
LimitRead(form, maxSize) ==
    IF Len(form) <= maxSize THEN form ELSE SubSeq(form, 1, maxSize)

\* write(2) on a descriptor at offset off: the bytes land at off..off+n-1,
\* what was stored beyond them stays, a gap before them reads as zeros.
WriteAt(bytes, off, chunk) ==
    LET end == off + Len(chunk)
        n   == IF Len(bytes) > end THEN Len(bytes) ELSE end
    IN  [i \in 1..n |->
            IF i > off /\ i <= end THEN chunk[i - off]
            ELSE IF i <= Len(bytes) THEN bytes[i]
            ELSE 0]

(* ------------------------- requests and state ------------------------- *)

\* The -token flag (main refuses to start without one).
Token == <<"s", "3">>

Bearer == <<"B", "e", "a", "r", "e", "r", " ">>

GoodName == <<"c", "-", "1">>

\* The names requests carry: one the check accepts, and the empty name, a
\* path out of the directory and a dotted name.
Filenames == {GoodName, <<>>, <<".", ".", "/", "x">>, <<"a", ".", "b">>}

AuthHeaders == {<<>>, Bearer \o Token, Bearer \o <<"x">>}

\* The sides of the images clients upload: the smallest and the largest.
Sides == {1, MaxDim}

\* Bodies of the multipart field "image": JPEG frames, one of them followed
\* by more bytes than maxSize lets through, and one that is no JPEG.
Payloads ==
    {Jpeg(w, h) : w, h \in Sides}
      \cup {Jpeg(1, MaxDim) \o <<0, 0, 0>>}
      \cup {<<0, 1, 1>>}

AllSaveReqs ==
    [method : {"POST", "GET"}, auth : AuthHeaders, filename : Filenames,
     hasForm : {TRUE}, form : Payloads]
      \cup [method : {"POST", "GET"}, auth : AuthHeaders, filename : Filenames,
            hasForm : {FALSE}, form : {<<>>}]

\* Uploads of an authorised client: well-formed, to the one good name.
GoodSaveReqs ==
    {r \in AllSaveReqs :
        /\ r.method = "POST" /\ r.auth = Bearer \o Token
        /\ r.filename = GoodName /\ r.hasForm /\ isValidJPEG(r.form)}

NoSaveReq ==
    [method |-> "", auth |-> <<>>, filename |-> <<>>, hasForm |-> FALSE, form |-> <<>>]

Uploaders == {1, 2}

IdleUpload ==
    [pc |-> "idle", req |-> NoSaveReq, data |-> <<>>, off |-> 0,
     status |-> 0, msg |-> "", formRead |-> FALSE, ops |-> {},
     changed |-> FALSE, overlapped |-> FALSE]

VARIABLES
    store,       \* the directory: name -> file
    up,          \* up[p]: the /save request goroutine p is serving
    rd,          \* the /scaled request being served
    lastWriter   \* the goroutine whose create or write reached the store last

vars == <<store, up, rd, lastWriter>>

(* ------------------------------ saveHandler --------------------------- *)

\* A faulty check: any header at all passes.
AuthorizedAnyBearer(authHeader) == authHeader /= <<>>

\* `authHeader == "" || authHeader != "Bearer "+bearerToken`, negated.
Authorized(authHeader) ==
    ~ (authHeader = <<>> \/ authHeader /= Bearer \o Token)

\* saveHandler up to the JPEG check: the response it ends in, or status 0
\* when the upload goes on to be stored.
saveHandlerChecks(req, readOk) ==
    LET data == LimitRead(req.form, MaxSize)
        resp(st, m, fr) == [status |-> st, msg |-> m, formRead |-> fr, data |-> <<>>]
    IN  IF req.method /= "POST"
          THEN resp(405, "Only POST requests are allowed", FALSE)
        ELSE IF ~ Authorized(req.auth)
          THEN resp(401, "Unauthorized", FALSE)
        ELSE IF ~ validFilename(req.filename)
          THEN resp(400, "Invalid or missing filename", FALSE)
        ELSE IF ~ req.hasForm
          THEN resp(400, "Error reading uploaded file", TRUE)
        ELSE IF ~ readOk
          THEN resp(500, "Error reading file data", TRUE)
        ELSE IF ~ isValidJPEG(data)
          THEN resp(400, "Uploaded file is not a valid JPEG", TRUE)
        ELSE [status |-> 0, msg |-> "", formRead |-> TRUE, data |-> data]

\* A request arrives and runs the method, token, filename, form and JPEG
\* checks (none of them touches the store).
saveHandlerBegin(p, reqs) ==
    /\ up[p].pc = "idle"
    /\ \E req \in reqs, readOk \in BOOLEAN :
         LET c == saveHandlerChecks(req, readOk)
         IN  up' = [up EXCEPT ![p] =
                      [IdleUpload EXCEPT
                         !.pc = IF c.status = 0 THEN "validated" ELSE "done",
                         !.req = req, !.data = c.data, !.status = c.status,
                         !.msg = c.msg, !.formRead = c.formRead]]
    /\ UNCHANGED <<store, rd, lastWriter>>

\* The goroutines other than p that are between their create and their
\* response on the same file: p's access to the store overlaps theirs.
Overlap(p, name) ==
    [q \in Uploaders |->
        IF q /= p /\ up[q].pc = "created" /\ up[q].req.filename = name
        THEN [up[q] EXCEPT !.overlapped = TRUE]
        ELSE up[q]]

\* A faulty create: without O_TRUNC, what the file held stays.
CreateKeep(file) == IF file.exists THEN file ELSE File(<<>>)

\* os.Create: O_CREATE|O_TRUNC, the file is empty afterwards.
Create(file) == File(<<>>)

\* os.Create succeeds: the file exists and is empty, the offset is 0.
saveHandlerCreate(p) ==
    /\ up[p].pc = "validated"
    /\ LET name == up[p].req.filename
       IN  /\ store' = [store EXCEPT ![name] = Create(store[name])]
           /\ up' = [Overlap(p, name) EXCEPT ![p] =
                       [up[p] EXCEPT !.pc = "created", !.off = 0,
                                     !.ops = @ \cup {"create"},
                                     !.changed = (store'[name] /= store[name]),
                                     !.overlapped = FALSE]]
    /\ lastWriter' = p
    /\ UNCHANGED rd

\* os.Create fails: 500, nothing is stored.
saveHandlerCreateFail(p) ==
    /\ up[p].pc = "validated"
    /\ up' = [up EXCEPT ![p] =
                [up[p] EXCEPT !.pc = "done", !.status = 500,
                              !.msg = "Error saving the image",
                              !.ops = @ \cup {"create"}]]
    /\ UNCHANGED <<store, rd, lastWriter>>

\* outFile.Write: one write(2) of the loop stores the next n bytes at the
\* descriptor's offset; after the last of them the handler logs and
\* answers 200.
saveHandlerWrite(p) ==
    /\ up[p].pc = "created"
    /\ \E n \in 1..(Len(up[p].data) - up[p].off) :
         LET name  == up[p].req.filename
             chunk == SubSeq(up[p].data, up[p].off + 1, up[p].off + n)
             done  == up[p].off + n = Len(up[p].data)
         IN  /\ store' = [store EXCEPT ![name] =
                            File(WriteAt(store[name].bytes, up[p].off, chunk))]
             /\ up' = [Overlap(p, name) EXCEPT ![p] =
                         [up[p] EXCEPT !.off = @ + n,
                                       !.ops = @ \cup {"write"},
                                       !.changed = TRUE,
                                       !.pc = IF done THEN "done" ELSE "created",
                                       !.status = IF done THEN 200 ELSE 0]]
    /\ lastWriter' = p
    /\ UNCHANGED rd

\* A write(2) fails (disk full, I/O error): 500, with whatever the create
\* and the earlier writes left in the file.
saveHandlerWriteFail(p) ==
    /\ up[p].pc = "created"
    /\ up' = [up EXCEPT ![p] =
                [up[p] EXCEPT !.pc = "done", !.status = 500,
                              !.msg = "Error writing to file",
                              !.ops = @ \cup {"write"}]]
    /\ UNCHANGED <<store, rd, lastWriter>>

\* The handler has answered; the goroutine takes the next request.
saveHandlerReturn(p) ==
    /\ up[p].pc = "done"
    /\ up' = [up EXCEPT ![p] = IdleUpload]
    /\ UNCHANGED <<store, rd, lastWriter>>

(* --------------------------- image geometry --------------------------- *)

ZR == [minX |-> 0, minY |-> 0, maxX |-> 0, maxY |-> 0]

\* image.Rect: the rectangle with the two corners, swapped where needed so
\* that Min <= Max.
Rect(x0, y0, x1, y1) ==
    [minX |-> IF x0 > x1 THEN x1 ELSE x0, minY |-> IF y0 > y1 THEN y1 ELSE y0,
     maxX |-> IF x0 > x1 THEN x0 ELSE x1, maxY |-> IF y0 > y1 THEN y0 ELSE y1]

Empty(r) == r.minX >= r.maxX \/ r.minY >= r.maxY

Dx(r) == r.maxX - r.minX

Dy(r) == r.maxY - r.minY

\* Rectangle.Intersect: the largest rectangle inside both, ZR when empty.
Intersect(r, s) ==
    LET t == [minX |-> IF r.minX < s.minX THEN s.minX ELSE r.minX,
              minY |-> IF r.minY < s.minY THEN s.minY ELSE r.minY,
              maxX |-> IF r.maxX > s.maxX THEN s.maxX ELSE r.maxX,
              maxY |-> IF r.maxY > s.maxY THEN s.maxY ELSE r.maxY]
    IN  IF Empty(t) THEN ZR ELSE t

\* A faulty crop: the rectangle as asked for, not cut to the image.
SubImageUnclipped(bounds, r) == r

\* (*image.YCbCr).SubImage: the bounds of the part of the image inside r
\* (the decoded image's bounds are `bounds`); an image with no pixels and
\* bounds ZR when r misses the image.
SubImage(bounds, r) == Intersect(r, bounds)

\* resize.Resize(width, height, img, interp): the bounds of the result.  A
\* side of 0 is derived from the other by the aspect ratio (both 0: the
\* size stays); an image of that size already, or one with no pixels, is
\* returned as it is.
Resize(width, height, r) ==
    LET w2 == IF width /= 0 THEN width
              ELSE IF height = 0 THEN Dx(r)
              ELSE IF Dy(r) = 0 THEN 0
              ELSE (7 * Dy(r) + 10 * Dx(r) * height) \div (10 * Dy(r))
        h2 == IF height /= 0 THEN height
              ELSE IF width = 0 THEN Dy(r)
              ELSE IF Dx(r) = 0 THEN 0
              ELSE (7 * Dx(r) + 10 * Dy(r) * width) \div (10 * Dx(r))
    IN  IF w2 = Dx(r) /\ h2 = Dy(r) THEN r
        ELSE IF Dx(r) <= 0 \/ Dy(r) <= 0 THEN r
        ELSE Rect(0, 0, w2, h2)

\* A faulty scale: the height of the crop is kept.
NewHeightKeep(width, r) == Dy(r)

\* scaleFactor := float64(width) / float64(Dx); newHeight :=
\* uint(float64(Dy) * scaleFactor): the product cut to a whole number.  (In
\* float64 a product that is a whole number exactly can come out one less,
\* as for Dy = 27, width = 13, Dx = 3; no size of this model does.  A crop
\* with no pixels has Dx = Dy = 0 and the product is NaN: Resize returns the
\* image whatever the conversion yields, 0 stands for it.)
NewHeight(width, r) ==
    IF Dx(r) = 0 THEN 0 ELSE (Dy(r) * width) \div Dx(r)

(* -------------------------------- label ------------------------------- *)

RemoteAddr == "192.0.2.7:4711"

UserAgent == "curl/8"

White == [r |-> 255, g |-> 255, b |-> 255, a |-> 255]

\* The color parameter: RRGGBB in hex, white when absent or unparsable.
LabelColor(colorParam) ==
    LET p == ParseUint(colorParam, 16)
    IN  IF colorParam /= <<>> /\ p.ok
        THEN [r |-> (p.val \div 65536) % 256, g |-> (p.val \div 256) % 256,
              b |-> p.val % 256, a |-> 255]
        ELSE White

\* X-Forwarded-For split at ", ": its first entry, else the peer address.
ClientIP(xff) == IF xff = <<>> THEN RemoteAddr ELSE xff[1]

\* A faulty label: the requester is named whether or not id is given.
LabelTextAlwaysId(id, xff) ==
    <<"FileTime:", "CurrentTime:", "IP:", ClientIP(xff), "User-Agent:", UserAgent>>

\* The label: the two times, and with id the requester's address and agent.
LabelText(id, xff) ==
    IF id /= <<>>
    THEN <<"FileTime:", "CurrentTime:", "IP:", ClientIP(xff), "User-Agent:", UserAgent>>
    ELSE <<"FileTime:", "CurrentTime:">>

NoLabel == [drawn |-> FALSE, text |-> <<>>, x |-> 0, y |-> 0, col |-> White]

\* Lines 117-152: drawText(rgbaImg, label, 10, 20, col) unless nolabel is set.
DrawLabel(nolabel, id, colorParam, xff) ==
    IF nolabel = <<>>
    THEN [drawn |-> TRUE, text |-> LabelText(id, xff), x |-> 10, y |-> 20,
          col |-> LabelColor(colorParam)]
    ELSE NoLabel

(* ----------------------------- scaledHandler -------------------------- *)

\* Values of x1 and y1, of x2 and y2, and of w in the queries: absent,
\* numbers inside and outside an image, and text that is no number.
CornerLo == {<<>>, <<"0">>, <<"1">>, <<"-", "1">>, <<"x">>}

CornerHi == {<<>>, <<"0">>, <<"1">>, <<"2">>, <<"9">>, <<"x">>}

Widths == {<<>>, <<"0">>, <<"1">>, <<"3">>, <<"6", "5", "5", "3", "6">>, <<"-", "1">>, <<"x">>}

Flags == {<<>>, <<"1">>}

Colors == {<<>>, <<"F", "F", "0", "0", "0", "0">>, <<"z", "z">>}

Forwarded == {<<>>, <<"198.51.100.1", "10.0.0.1">>}

Query(f, x1, y1, x2, y2, w, nolabel, id, color, xff) ==
    [filename |-> f, x1 |-> x1, y1 |-> y1, x2 |-> x2, y2 |-> y2, w |-> w,
     nolabel |-> nolabel, id |-> id, color |-> color, xff |-> xff]

NoQuery == Query(<<>>, <<>>, <<>>, <<>>, <<>>, <<>>, <<>>, <<>>, <<>>, <<>>)

\* Every geometry with every label switch; every label parameter on two
\* geometries; every name.
AllQueries ==
    {Query(GoodName, x1, y1, x2, y2, w, nl, id, <<>>, <<>>) :
        x1 \in CornerLo, y1 \in CornerLo, x2 \in CornerHi, y2 \in CornerHi,
        w \in Widths, nl \in Flags, id \in Flags}
      \cup {Query(GoodName, <<>>, <<>>, x2, <<>>, <<>>, nl, id, c, xff) :
              x2 \in {<<>>, <<"1">>}, nl \in Flags, id \in Flags,
              c \in Colors, xff \in Forwarded}
      \cup {Query(f, <<>>, <<>>, <<>>, <<>>, w, <<>>, <<>>, <<>>, <<>>) :
              f \in Filenames, w \in {<<>>, <<"x">>}}

\* The queries of a client that asks for no label: every choice of given
\* and defaulted corners under the good name, and every other name.
FewQueries ==
    {Query(GoodName, x1, y1, x2, y2, <<>>, <<"1">>, <<>>, <<>>, <<>>) :
        x1 \in {<<>>, <<"1">>}, y1 \in {<<>>, <<"0">>},
        x2 \in {<<>>, <<"2">>}, y2 \in {<<>>, <<"1">>}}
      \cup {Query(f, <<>>, <<>>, <<>>, <<>>, <<>>, <<"1">>, <<>>, <<>>, <<>>) :
              f \in Filenames}

Size(w, h) == [w |-> w, h |-> h]

IdleRender ==
    [pc |-> "idle", q |-> NoQuery, status |-> 0, msg |-> "", ctype |-> "",
     ops |-> {}, img |-> Size(0, 0), box |-> ZR, crop |-> ZR, out |-> ZR,
     label |-> NoLabel]

\* http.Error: the status, a plain-text message and no image.
Error(r, status, msg) ==
    [r EXCEPT !.pc = "done", !.status = status, !.msg = msg,
              !.ctype = "text/plain; charset=utf-8"]

\* A faulty default: the far corner one pixel inside the image.
BoxDefaultInset(x1, y1, x2, y2, img) ==
    [minX |-> IF x1.present THEN x1.val ELSE 0,
     minY |-> IF y1.present THEN y1.val ELSE 0,
     maxX |-> IF x2.present THEN x2.val ELSE img.w - 1,
     maxY |-> IF y2.present THEN y2.val ELSE img.h - 1]

\* x1, y1, x2, y2 := 0, 0, img.Bounds().Max.X, img.Bounds().Max.Y, each then
\* replaced by its parameter when that is given.
Box(x1, y1, x2, y2, img) ==
    [minX |-> IF x1.present THEN x1.val ELSE 0,
     minY |-> IF y1.present THEN y1.val ELSE 0,
     maxX |-> IF x2.present THEN x2.val ELSE img.w,
     maxY |-> IF y2.present THEN y2.val ELSE img.h]

\* Lines 63-164: the parameters are parsed, the image is cropped, scaled,
\* labelled and encoded.  r is the request's state once the image is decoded.
scaledHandlerPipeline(r, img) ==
    LET q  == r.q
        P(s) == [present |-> s /= <<>>, ok |-> s = <<>> \/ Atoi(s).ok, val |-> Atoi(s).val]
        x1 == P(q.x1)
        y1 == P(q.y1)
        x2 == P(q.x2)
        y2 == P(q.y2)
        box  == Box(x1, y1, x2, y2, img)
        crop == SubImage(Rect(0, 0, img.w, img.h),
                         Rect(box.minX, box.minY, box.maxX, box.maxY))
        width == ParseUint(q.w, 10)
        out  == IF q.w /= <<>>
                THEN Resize(width.val, NewHeight(width.val, crop), crop)
                ELSE crop
        r1 == [r EXCEPT !.img = img]
        r2 == [r1 EXCEPT !.box = box, !.crop = crop]
    IN  IF ~ x1.ok THEN Error(r1, 400, "Invalid x1 parameter")
        ELSE IF ~ y1.ok THEN Error(r1, 400, "Invalid y1 parameter")
        ELSE IF ~ x2.ok THEN Error(r1, 400, "Invalid x2 parameter")
        ELSE IF ~ y2.ok THEN Error(r1, 400, "Invalid y2 parameter")
        ELSE IF q.w /= <<>> /\ ~ width.ok THEN Error(r2, 400, "Invalid w parameter")
        ELSE IF Dx(out) >= JpegMaxSide \/ Dy(out) >= JpegMaxSide
          THEN Error([r2 EXCEPT !.out = out,
                                !.label = DrawLabel(q.nolabel, q.id, q.color, q.xff)],
                     500, "Error encoding the cropped image")
        ELSE [r2 EXCEPT !.pc = "done", !.status = 200, !.ctype = "image/jpeg",
                        !.out = out,
                        !.label = DrawLabel(q.nolabel, q.id, q.color, q.xff)]

\* A request arrives: the filename check, then os.Open.
scaledHandlerOpen(queries) ==
    /\ rd.pc = "idle"
    /\ \E q \in queries :
         LET r == [IdleRender EXCEPT !.q = q]
         IN  rd' = IF ~ validFilename(q.filename)
                     THEN Error(r, 400, "Invalid or missing filename")
                   ELSE IF ~ store[q.filename].exists
                     THEN Error([r EXCEPT !.ops = {"open"}], 404, "File not found")
                   ELSE [r EXCEPT !.pc = "opened", !.ops = {"open"}]
    /\ UNCHANGED <<store, up, lastWriter>>

\* imgFile.Stat, then image.Decode of what the file holds now, then the
\* rest of the handler.
scaledHandlerRender ==
    /\ rd.pc = "opened"
    /\ \E statOk \in BOOLEAN :
         LET d == Decode(store[rd.q.filename].bytes)
         IN  rd' = IF ~ statOk
                     THEN Error(rd, 500, "Error getting file info")
                   ELSE IF ~ d.ok
                     THEN Error(rd, 500, "Error decoding the image")
                   ELSE scaledHandlerPipeline(rd, Size(d.w, d.h))
    /\ UNCHANGED <<store, up, lastWriter>>

\* The handler has answered and takes the next request.
scaledHandlerReturn ==
    /\ rd.pc = "done"
    /\ rd' = IdleRender
    /\ UNCHANGED <<store, up, lastWriter>>

(* --------------------------- specifications --------------------------- *)

EmptyStore == [f \in Filenames |-> NoFile]

Init ==
    /\ store = EmptyStore
    /\ up = [p \in Uploaders |-> IdleUpload]
    /\ rd = IdleRender
    /\ lastWriter = 0

\* One client uploads anything at all while another fetches crops.
Next ==
    \/ saveHandlerBegin(1, AllSaveReqs)
    \/ saveHandlerCreate(1)
    \/ saveHandlerCreateFail(1)
    \/ saveHandlerWrite(1)
    \/ saveHandlerWriteFail(1)
    \/ saveHandlerReturn(1)
    \/ scaledHandlerOpen(FewQueries)
    \/ scaledHandlerRender
    \/ scaledHandlerReturn

Spec == Init /\ [][Next]_vars

\* Two authorised clients upload to the same name at the same time.
NextRace ==
    \E p \in Uploaders :
        \/ saveHandlerBegin(p, GoodSaveReqs)
        \/ saveHandlerCreate(p)
        \/ saveHandlerCreateFail(p)
        \/ saveHandlerWrite(p)
        \/ saveHandlerWriteFail(p)
        \/ saveHandlerReturn(p)

SpecRace == Init /\ [][NextRace]_vars

\* What earlier uploads can have left under the good name: nothing, a
\* whole JPEG, or the file of an upload that is still being written.
StoredFiles ==
    {NoFile, File(<<>>), File(<<Marker>>)} \cup {File(Jpeg(w, h)) : w, h \in Sides}

InitRender ==
    /\ store \in {[EmptyStore EXCEPT ![GoodName] = f] : f \in StoredFiles}
    /\ up = [p \in Uploaders |-> IdleUpload]
    /\ rd = IdleRender
    /\ lastWriter = 0

\* Renders of a store that does not change, with every query.
NextRender ==
    \/ scaledHandlerOpen(AllQueries)
    \/ scaledHandlerRender
    \/ scaledHandlerReturn

SpecRender == InitRender /\ [][NextRender]_vars

(* ------------------------------- claims ------------------------------- *)

\* A name of ASCII letters, digits and hyphens, and not the empty one.
NameOk(name) ==
    /\ Len(name) >= 1
    /\ \A i \in 1..Len(name) :
         name[i] \in Lower \cup Upper \cup {"0","1","2","3","4","5","6","7","8","9","-"}

Failures == {405, 401, 400, 500}

\* C1: an upload that ends in a failure response (405, 401, 400 or 500) has
\* not changed the file under its name: the request neither created it nor
\* truncated it nor wrote part of it.
C1_FailedUploadLeavesBlob ==
    \A p \in Uploaders :
        up[p].pc = "done" /\ up[p].status \in Failures => ~ up[p].changed

BothStored ==
    /\ \A p \in Uploaders : up[p].pc = "done" /\ up[p].status = 200
    /\ up[1].req.filename = up[2].req.filename

\* C2 as stated: when two uploads to one name have both answered 200, the
\* file holds exactly the payload of the upload whose write came last.
C2_LastWriteWins ==
    BothStored => store[up[1].req.filename].bytes = up[lastWriter].data

\* C2 as amended: when two uploads to one name have both answered 200 and
\* no create or write of the other upload fell between the os.Create and the
\* response of the upload that wrote last, the file holds exactly that
\* upload's payload.
C2_LastWriteWinsUnlessOverlapped ==
    BothStored /\ ~ up[lastWriter].overlapped
        => store[up[1].req.filename].bytes = up[lastWriter].data

C2_Witness ==
    /\ BothStored
    /\ ~ up[lastWriter].overlapped
    /\ up[1].data /= up[2].data
    /\ Len(up[lastWriter].data) < Len(up[3 - lastWriter].data)

\* C3: a POST to /save whose Authorization header is absent or is not
\* "Bearer <token>" is answered 401, and the handler has neither read the
\* form nor touched the store, whatever the filename and the body are.
C3_BadTokenIs401 ==
    \A p \in Uploaders :
        (/\ up[p].pc /= "idle"
         /\ up[p].req.method = "POST"
         /\ up[p].req.auth /= Bearer \o Token)
        => /\ up[p].pc = "done"
           /\ up[p].status = 401
           /\ ~ up[p].formRead
           /\ up[p].ops = {}
           /\ ~ up[p].changed

C3_Witness ==
    /\ up[1].pc = "done" /\ up[1].status = 401
    /\ up[1].req.auth = Bearer \o <<"x">>
    /\ NameOk(up[1].req.filename)
    /\ up[1].req.hasForm /\ Len(up[1].req.form) >= 3 /\ up[1].req.form[1] = Marker
    /\ store[up[1].req.filename].exists

Num(s) ==
    CASE s = <<"0">> -> 0
      [] s = <<"1">> -> 1
      [] s = <<"2">> -> 2
      [] s = <<"3">> -> 3
      [] s = <<"9">> -> 9
      [] s = <<"-", "1">> -> 0 - 1
      [] s = <<"6", "5", "5", "3", "6">> -> 65536
      [] OTHER -> 0

\* C5: when an upload of a JPEG of size width x height has answered 200, a
\* render of its name with no w and a crop box inside the image
\* (0 <= x1 < x2 <= width, 0 <= y1 < y2 <= height; a corner that is not
\* given is 0, 0, width, height) answers 200 with Content-Type image/jpeg
\* and an image of (x2-x1) x (y2-y1), the Stat of the open file succeeding.
C5_RenderAfterUpload ==
    [][ \A width, height \in 1..MaxDim :
          LET q  == rd.q
              x1 == IF q.x1 = <<>> THEN 0 ELSE Num(q.x1)
              y1 == IF q.y1 = <<>> THEN 0 ELSE Num(q.y1)
              x2 == IF q.x2 = <<>> THEN width ELSE Num(q.x2)
              y2 == IF q.y2 = <<>> THEN height ELSE Num(q.y2)
          IN  (/\ up[1].pc = "done" /\ up[1].status = 200
               /\ SubSeq(up[1].data, 1, 3) = <<Marker, width, height>>
               /\ rd.pc = "opened" /\ rd'.pc = "done"
               /\ rd'.msg /= "Error getting file info"
               /\ q.filename = up[1].req.filename
               /\ q.w = <<>>
               /\ 0 <= x1 /\ x1 < x2 /\ x2 <= width
               /\ 0 <= y1 /\ y1 < y2 /\ y2 <= height)
              => /\ rd'.status = 200
                 /\ rd'.ctype = "image/jpeg"
                 /\ Dx(rd'.out) = x2 - x1
                 /\ Dy(rd'.out) = y2 - y1 ]_vars

C5_Witness ==
    /\ up[1].pc = "done" /\ up[1].status = 200
    /\ up[1].data = <<Marker, 2, 2>>
    /\ rd.pc = "done" /\ rd.status = 200 /\ rd.img = Size(2, 2)
    /\ rd.q.x1 = <<"1">> /\ rd.q.x2 = <<>> /\ rd.q.y1 = <<>> /\ rd.q.y2 = <<"1">>
    /\ Dx(rd.out) = 1 /\ Dy(rd.out) = 1

\* The render decoded the stored image and parsed all of x1, y1, x2, y2.
BoxResolved ==
    /\ rd.pc = "done"
    /\ rd.img.w > 0
    /\ rd.msg \notin {"Invalid x1 parameter", "Invalid y1 parameter",
                      "Invalid x2 parameter", "Invalid y2 parameter"}

\* w is given and is a non-negative whole number.
WidthAccepted ==
    rd.q.w \in {<<"0">>, <<"1">>, <<"3">>, <<"6", "5", "5", "3", "6">>}

\* H * w / W rounded to the nearest whole number.
Round(H, w, W) == (2 * H * w + W) \div (2 * W)

Near(a, b) == a - b \in {0 - 1, 0, 1}

\* C6 as stated: for every crop of W x H pixels (W > 0, H > 0) and every
\* width w the w parameter accepts, the rendered image is w wide, and its
\* height is within one pixel of round(H * w / W).
C6_ScaledToWidth ==
    BoxResolved /\ WidthAccepted /\ Dx(rd.crop) > 0 /\ Dy(rd.crop) > 0
        => /\ rd.status = 200
           /\ Dx(rd.out) = Num(rd.q.w)
           /\ Near(Dy(rd.out), Round(Dy(rd.crop), Num(rd.q.w), Dx(rd.crop)))

\* C6 as amended: for every crop of W x H pixels (W > 0, H > 0) and every
\* accepted width w >= 1 whose render answers 200 (the encoder refuses a
\* side of 65536 or more), the rendered image is w wide and its height is
\* within one pixel of round(H * w / W); w = 0 answers 200 with the crop
\* unscaled, W x H.
C6_ScaledToPositiveWidth ==
    BoxResolved /\ WidthAccepted /\ Dx(rd.crop) > 0 /\ Dy(rd.crop) > 0
        => IF Num(rd.q.w) = 0
           THEN /\ rd.status = 200
                /\ Dx(rd.out) = Dx(rd.crop) /\ Dy(rd.out) = Dy(rd.crop)
           ELSE rd.status = 200
                  => /\ Dx(rd.out) = Num(rd.q.w)
                     /\ Near(Dy(rd.out), Round(Dy(rd.crop), Num(rd.q.w), Dx(rd.crop)))

C6_Witness ==
    /\ BoxResolved /\ rd.status = 200
    /\ rd.q.w = <<"3">>
    /\ Dx(rd.crop) = 1 /\ Dy(rd.crop) = 2
    /\ Dx(rd.out) = 3 /\ Dy(rd.out) = 6

\* C7: a render whose crop box, once its defaults are filled in, has
\* x1 = x2 or y1 = y2 ends in an error response, never in 200.
C7_EmptyBoxIsError ==
    BoxResolved /\ (rd.box.minX = rd.box.maxX \/ rd.box.minY = rd.box.maxY)
        => rd.status /= 200

\* 0 <= x1 < x2 <= width and 0 <= y1 < y2 <= height.
BoxInside ==
    /\ 0 <= rd.box.minX /\ rd.box.minX < rd.box.maxX /\ rd.box.maxX <= rd.img.w
    /\ 0 <= rd.box.minY /\ rd.box.minY < rd.box.maxY /\ rd.box.maxY <= rd.img.h

Least(a, b) == IF a < b THEN a ELSE b

Most(a, b) == IF a < b THEN b ELSE a

NotInteger(s) ==
    /\ s /= <<>>
    /\ LET body == IF s[1] \in {"+", "-"} THEN Tail(s) ELSE s
       IN  body = <<>> \/ \E i \in 1..Len(body) :
                             body[i] \notin {"0","1","2","3","4","5","6","7","8","9"}

\* The message for the first of x1, y1, x2, y2, w that is no whole number.
FirstBadMessage(q) ==
    IF NotInteger(q.x1) THEN "Invalid x1 parameter"
    ELSE IF NotInteger(q.y1) THEN "Invalid y1 parameter"
    ELSE IF NotInteger(q.x2) THEN "Invalid x2 parameter"
    ELSE IF NotInteger(q.y2) THEN "Invalid y2 parameter"
    ELSE IF NotInteger(q.w) THEN "Invalid w parameter"
    ELSE ""

\* C9: a render of a valid name whose file does not exist answers 404
\* whatever x1, y1, x2, y2 and w are; one whose file is loaded and decodes,
\* and which has a parameter among x1, y1, x2, y2, w that is given but is no
\* whole number, answers 400 with the message naming the first such
\* parameter in that order, and sends no image.
C9_BadNumberIs400 ==
    rd.pc = "done" /\ NameOk(rd.q.filename)
        => /\ ~ store[rd.q.filename].exists => rd.status = 404
           /\ (/\ store[rd.q.filename].exists
               /\ rd.msg /= "Error getting file info"
               /\ Len(store[rd.q.filename].bytes) >= 3
               /\ \E w, h \in 1..MaxDim :
                     SubSeq(store[rd.q.filename].bytes, 1, 3) = <<Marker, w, h>>
               /\ FirstBadMessage(rd.q) /= "")
              => /\ rd.status = 400
                 /\ rd.msg = FirstBadMessage(rd.q)
                 /\ rd.ctype /= "image/jpeg"
                 /\ rd.out = ZR

C9_Witness ==
    /\ rd.pc = "done" /\ rd.status = 400
    /\ rd.q.x1 = <<"1">> /\ rd.q.y1 = <<"-", "1">> /\ rd.q.x2 = <<"x">>
    /\ rd.q.w = <<"x">>
    /\ rd.msg = "Invalid x2 parameter"

\* The label on the image names the requester: an address or the agent.
IdentityDrawn ==
    /\ rd.label.drawn
    /\ \E i \in 1..Len(rd.label.text) :
          rd.label.text[i] \in {RemoteAddr, UserAgent, "198.51.100.1", "10.0.0.1"}

\* C10: the image a render answers with shows the requester's address and
\* agent exactly when id is given and nolabel is not; with nolabel given
\* nothing at all is drawn on it, whatever id and color are.
C10_IdentityOnlyOnRequest ==
    rd.pc = "done" /\ rd.status = 200
        => /\ IdentityDrawn <=> (rd.q.id /= <<>> /\ rd.q.nolabel = <<>>)
           /\ rd.q.nolabel /= <<>> => ~ rd.label.drawn /\ rd.label.text = <<>>

C10_Witness ==
    /\ rd.pc = "done" /\ rd.status = 200
    /\ rd.q.id /= <<>> /\ rd.q.nolabel = <<>> /\ rd.q.xff /= <<>>
    /\ rd.q.color = <<"F", "F", "0", "0", "0", "0">>
    /\ rd.label.col = [r |-> 255, g |-> 0, b |-> 0, a |-> 255]
    /\ IdentityDrawn

====
